---------------------------- MODULE Spec2Model ----------------------------
(***************************************************************************)
(* A model of unsvg (src/src/lib.rs): the colour palette and its symbolic  *)
(* index, the f32 end-point computation with its 1/256 quantization, and   *)
(* the Image whose scene grows by one stroked line per successful          *)
(* draw_simple_line and is only read by save_svg and save_png.             *)
(*                                                                         *)
(* Coordinates are IEEE-754 binary32 values.  They are modelled bit for    *)
(* bit: a finite value is sign, integer significand m and exponent e with  *)
(* value (-1)^s * m * 2^e, and every arithmetic step rounds as the         *)
(* hardware does.  All intermediate integers stay below 2^31.              *)
(***************************************************************************)
EXTENDS Integers, Sequences, FiniteSets, TLC

(***************************************************************************)
(* binary32 values                                                         *)
(***************************************************************************)
MantissaBits == 24
EMin == -149
EMax == 104

Fin(s, m, e) == [k |-> "fin", s |-> s, m |-> m, e |-> e]
Inf(s) == [k |-> "inf", s |-> s, m |-> 0, e |-> 0]
NaN == [k |-> "nan", s |-> 0, m |-> 0, e |-> 0]
Zero(s) == Fin(s, 0, EMin)

\* The one element of a singleton.  An operator below that reads an argument
\* more than once is written Only({ body : a \in {x} }), which evaluates the
\* argument x once and binds a to its value.
Only(S) == CHOOSE r \in S : TRUE

IsNaN(a) == a.k = "nan"
IsFinite(a) == a.k = "fin"
IsZero(a) == a.k = "fin" /\ a.m = 0

\* The f32 operator ==: NaN equals nothing, -0.0 equals 0.0.
FEq(a, b) ==
    /\ ~IsNaN(a)
    /\ ~IsNaN(b)
    /\ \/ a = b
       \/ IsZero(a) /\ IsZero(b)

FNeg(x) == Only({ IF IsNaN(a) THEN NaN ELSE [a EXCEPT !.s = 1 - a.s] : a \in {x} })

RECURSIVE BitLen(_)
BitLen(n) == IF n = 0 THEN 0 ELSE 1 + BitLen(n \div 2)

\* n with its lowest bit set when bits were lost below it (the sticky bit).
Jam(n, lost) == IF lost /\ n % 2 = 0 THEN n + 1 ELSE n

\* The binary32 nearest to (-1)^s * M * 2^E, ties to even; M < 2^31.
RoundPack(s, M, E) ==
    IF M = 0 THEN Zero(s)
    ELSE
    LET len == BitLen(M)
        sh0 == len - MantissaBits
        sh  == IF E + sh0 < EMin THEN EMin - E ELSE sh0
    IN  IF sh <= 0 THEN Fin(s, M * 2^(0 - sh), E + sh)
        ELSE IF sh > 31 THEN Zero(s)
        ELSE
        LET half == 2^(sh - 1)
            top  == M \div half
            q    == top \div 2
            up   == top % 2 = 1 /\ (M % half # 0 \/ q % 2 = 1)
            q1   == IF up THEN q + 1 ELSE q
            m    == IF q1 = 2^MantissaBits THEN 2^(MantissaBits - 1) ELSE q1
            e    == IF q1 = 2^MantissaBits THEN E + sh + 1 ELSE E + sh
        IN  IF e > EMax THEN Inf(s) ELSE Fin(s, m, e)

\* The same for the two-limb integer Hi * 2^24 + Lo (Hi, Lo < 2^24).
RoundPack2(s, Hi, Lo, E) ==
    LET hb == BitLen(Hi)
    IN  IF hb <= 6 THEN RoundPack(s, (Hi * 2^24) + Lo, E)
        ELSE
        LET k    == hb - 6
            kept == (Hi * 2^(24 - k)) + (Lo \div 2^k)
        IN  RoundPack(s, Jam(kept, Lo % 2^k # 0), E + k)

\* a * b
F32Mul(x, y) == Only({
    LET s == (a.s + b.s) % 2
    IN  IF IsNaN(a) \/ IsNaN(b) THEN NaN
        ELSE IF a.k = "inf" \/ b.k = "inf"
             THEN IF IsZero(a) \/ IsZero(b) THEN NaN ELSE Inf(s)
        ELSE IF a.m = 0 \/ b.m = 0 THEN Zero(s)
        ELSE
        LET a1  == a.m \div 4096
            a0  == a.m % 4096
            b1  == b.m \div 4096
            b0  == b.m % 4096
            mid == (a1 * b0) + (a0 * b1)
            lo  == ((mid % 4096) * 4096) + (a0 * b0)
            Lo  == lo % 2^24
            Hi  == (a1 * b1) + (mid \div 4096) + (lo \div 2^24)
        IN  RoundPack2(s, Hi, Lo, a.e + b.e)
    : a \in {x}, b \in {y} })

\* a + b
F32Add(x, y) == Only({
    IF IsNaN(a) \/ IsNaN(b) THEN NaN
    ELSE IF a.k = "inf" /\ b.k = "inf" THEN (IF a.s = b.s THEN a ELSE NaN)
    ELSE IF a.k = "inf" THEN a
    ELSE IF b.k = "inf" THEN b
    ELSE IF a.m = 0 /\ b.m = 0 THEN Zero(IF a.s = 1 /\ b.s = 1 THEN 1 ELSE 0)
    ELSE IF a.m = 0 THEN b
    ELSE IF b.m = 0 THEN a
    ELSE
    LET aBig == a.e > b.e \/ (a.e = b.e /\ a.m >= b.m)
        big  == IF aBig THEN a ELSE b
        sml  == IF aBig THEN b ELSE a
        d    == big.e - sml.e
        A    == big.m * 8
        B    == IF d > 27 THEN 1
                ELSE Jam((sml.m * 8) \div 2^d, (sml.m * 8) % 2^d # 0)
    IN  IF big.s = sml.s THEN RoundPack(big.s, A + B, big.e - 3)
        ELSE IF A = B THEN Zero(0)
        ELSE RoundPack(big.s, A - B, big.e - 3)
    : a \in {x}, b \in {y} })

\* f32::round: to the nearest integer, halves away from zero.
F32Round(x) == Only({
    IF a.k # "fin" \/ a.e >= 0 \/ a.m = 0 THEN a
    ELSE IF 0 - a.e > MantissaBits THEN Zero(a.s)
    ELSE
    LET half == 2^(0 - a.e - 1)
        top  == a.m \div half
    IN  RoundPack(a.s, (top \div 2) + (top % 2), 0)
    : a \in {x} })

\* a / b for b a power of two (the crate divides by 256.0 only): the quotient
\* is a * 2^-j exactly, rounded once.
F32Div(a, b) == F32Mul(a, Fin(b.s, b.m, 0 - 2 * (MantissaBits - 1) - b.e))

\* `direction as f32`
I32ToF32(d) ==
    LET s   == IF d < 0 THEN 1 ELSE 0
        mag == IF d < 0 THEN 0 - d ELSE d
    IN  RoundPack2(s, mag \div 2^24, mag % 2^24, 0)

(***************************************************************************)
(* get_end_coordinates and quantize                                        *)
(***************************************************************************)
F32(n) == I32ToF32(n)

\* f32::to_radians: self * (PI / 180.0), the constant being 0x3C8EFA35.
RADS_PER_DEG == Fin(0, 9370165, -29)
to_radians(a) == F32Mul(a, RADS_PER_DEG)

\* cosf and sinf of the platform's libm at the radian values the modelled
\* directions produce (each row: the argument, its cosine, its sine).
TrigTable ==
    { \* directions -1170, -1080, -1020, -990, -900, -840, -810, -720, -660, -630, -540, -480, -450, -360, -300, -270, -180, -120, -90, 0, 60, 90
      \* 120, 180, 240, 270, 360, 420, 450, 540, 600, 630, 720, 780, 810, 900, 960, 990, 1080, 1140, 1170, 1260, 1320, 1350
      [r |-> Fin(1, 11529695, -19), cos |-> Fin(1, 8388608, -23), sin |-> Fin(1, 10205815, -44)],
      [r |-> Fin(1, 10706146, -19), cos |-> Fin(1, 12093878, -44), sin |-> Fin(1, 8388608, -23)],
      [r |-> Fin(1, 10157112, -19), cos |-> Fin(0, 14529504, -24), sin |-> Fin(1, 16777187, -25)],
      [r |-> Fin(1, 9882596, -19), cos |-> Fin(0, 8388608, -23), sin |-> Fin(1, 13426222, -48)],
      [r |-> Fin(1, 9059046, -19), cos |-> Fin(1, 10415600, -44), sin |-> Fin(0, 8388608, -23)],
      [r |-> Fin(1, 8510013, -19), cos |-> Fin(1, 14529498, -24), sin |-> Fin(0, 16777205, -25)],
      [r |-> Fin(1, 16470993, -20), cos |-> Fin(1, 8388608, -23), sin |-> Fin(1, 9786246, -45)],
      [r |-> Fin(1, 14823894, -20), cos |-> Fin(1, 10069666, -48), sin |-> Fin(1, 8388608, -23)],
      [r |-> Fin(1, 13725828, -20), cos |-> Fin(0, 14529493, -24), sin |-> Fin(1, 8388612, -24)],
      [r |-> Fin(1, 13176795, -20), cos |-> Fin(0, 8388608, -23), sin |-> Fin(1, 12303662, -45)],
      [r |-> Fin(1, 11529695, -20), cos |-> Fin(1, 10205815, -45), sin |-> Fin(0, 8388608, -23)],
      [r |-> Fin(1, 10431629, -20), cos |-> Fin(1, 14529496, -24), sin |-> Fin(0, 16777214, -25)],
      [r |-> Fin(1, 9882596, -20), cos |-> Fin(1, 8388608, -23), sin |-> Fin(0, 13426222, -49)],
      [r |-> Fin(1, 16470993, -21), cos |-> Fin(0, 9786246, -46), sin |-> Fin(1, 8388608, -23)],
      [r |-> Fin(1, 14274861, -21), cos |-> Fin(0, 14529495, -24), sin |-> Fin(1, 8388609, -24)],
      [r |-> Fin(1, 13176795, -21), cos |-> Fin(0, 8388608, -23), sin |-> Fin(1, 12303662, -46)],
      [r |-> Fin(1, 9882596, -21), cos |-> Fin(0, 13426222, -50), sin |-> Fin(0, 8388608, -23)],
      [r |-> Fin(1, 15372927, -22), cos |-> Fin(1, 14529495, -24), sin |-> Fin(0, 16777215, -25)],
      [r |-> Fin(1, 13176795, -22), cos |-> Fin(1, 8388608, -23), sin |-> Fin(0, 12303662, -47)],
      [r |-> Fin(1, 13176795, -23), cos |-> Fin(1, 12303662, -48), sin |-> Fin(1, 8388608, -23)],
      [r |-> Fin(1, 8784530, -24), cos |-> Fin(0, 14529495, -24), sin |-> Fin(1, 8388608, -24)],
      [r |-> Fin(0, 0, -149), cos |-> Fin(0, 8388608, -23), sin |-> Fin(0, 0, -149)],
      [r |-> Fin(0, 8784530, -24), cos |-> Fin(0, 14529495, -24), sin |-> Fin(0, 8388608, -24)],
      [r |-> Fin(0, 13176795, -23), cos |-> Fin(1, 12303662, -48), sin |-> Fin(0, 8388608, -23)],
      [r |-> Fin(0, 10980662, -22), cos |-> Fin(1, 14529495, -24), sin |-> Fin(0, 8388609, -24)],
      [r |-> Fin(0, 13176795, -22), cos |-> Fin(1, 8388608, -23), sin |-> Fin(1, 12303662, -47)],
      [r |-> Fin(0, 9882596, -21), cos |-> Fin(0, 13426222, -50), sin |-> Fin(1, 8388608, -23)],
      [r |-> Fin(0, 12078728, -21), cos |-> Fin(0, 14529494, -24), sin |-> Fin(1, 8388611, -24)],
      [r |-> Fin(0, 13176795, -21), cos |-> Fin(0, 8388608, -23), sin |-> Fin(0, 12303662, -46)],
      [r |-> Fin(0, 16470993, -21), cos |-> Fin(0, 9786246, -46), sin |-> Fin(0, 8388608, -23)],
      [r |-> Fin(0, 9333563, -20), cos |-> Fin(1, 14529496, -24), sin |-> Fin(0, 16777212, -25)],
      [r |-> Fin(0, 9882596, -20), cos |-> Fin(1, 8388608, -23), sin |-> Fin(1, 13426222, -49)],
      [r |-> Fin(0, 11529695, -20), cos |-> Fin(1, 10205815, -45), sin |-> Fin(1, 8388608, -23)],
      [r |-> Fin(0, 12627761, -20), cos |-> Fin(0, 14529491, -24), sin |-> Fin(1, 8388615, -24)],
      [r |-> Fin(0, 13176795, -20), cos |-> Fin(0, 8388608, -23), sin |-> Fin(0, 12303662, -45)],
      [r |-> Fin(0, 14823894, -20), cos |-> Fin(1, 10069666, -48), sin |-> Fin(0, 8388608, -23)],
      [r |-> Fin(0, 15921960, -20), cos |-> Fin(1, 14529494, -24), sin |-> Fin(0, 8388610, -24)],
      [r |-> Fin(0, 16470993, -20), cos |-> Fin(1, 8388608, -23), sin |-> Fin(0, 9786246, -45)],
      [r |-> Fin(0, 9059046, -19), cos |-> Fin(1, 10415600, -44), sin |-> Fin(1, 8388608, -23)],
      [r |-> Fin(0, 9608079, -19), cos |-> Fin(0, 14529489, -24), sin |-> Fin(1, 8388620, -24)],
      [r |-> Fin(0, 9882596, -19), cos |-> Fin(0, 8388608, -23), sin |-> Fin(0, 13426222, -48)],
      [r |-> Fin(0, 10706146, -19), cos |-> Fin(1, 12093878, -44), sin |-> Fin(0, 8388608, -23)],
      [r |-> Fin(0, 11255179, -19), cos |-> Fin(1, 14529499, -24), sin |-> Fin(0, 16777202, -25)],
      [r |-> Fin(0, 11529695, -19), cos |-> Fin(1, 8388608, -23), sin |-> Fin(0, 10205815, -44)] }

TrigRow(r) == CHOOSE row \in TrigTable : row.r = r
cos(x) == Only({ IF r.k # "fin" THEN NaN ELSE TrigRow(r).cos : r \in {x} })
sin(x) == Only({ IF r.k # "fin" THEN NaN ELSE TrigRow(r).sin : r \in {x} })


\* A slip in the scale: (x * 255.0).round() / 256.0
quantize_255(x) == F32Div(F32Round(F32Mul(x, F32(255))), F32(256))

\* (x * 256.0).round() / 256.0
quantize(x) == F32Div(F32Round(F32Mul(x, F32(256))), F32(256))


\* The quarter turn added instead of subtracted.
get_end_coordinates_plus90(x, y, direction, length) == Only({
    LET qx == quantize(x)
        qy == quantize(y)
        end_x == quantize(F32Add(qx, F32Mul(cos(direction_rad), length)))
        end_y == quantize(F32Add(qy, F32Mul(sin(direction_rad), length)))
    IN  <<end_x, end_y>>
    : direction_rad \in {to_radians(F32Add(F32(direction), F32(90)))} })

\* A negative length special-cased to its magnitude.
get_end_coordinates_unsigned(x, y, direction, length) == Only({
    LET qx == quantize(x)
        qy == quantize(y)
        len == IF length.k = "nan" THEN length ELSE [length EXCEPT !.s = 0]
        end_x == quantize(F32Add(qx, F32Mul(cos(direction_rad), len)))
        end_y == quantize(F32Add(qy, F32Mul(sin(direction_rad), len)))
    IN  <<end_x, end_y>>
    : direction_rad \in {to_radians(F32Add(F32(direction), FNeg(F32(90))))} })

get_end_coordinates(x, y, direction, length) == Only({
    LET qx == quantize(x)
        qy == quantize(y)
        end_x == quantize(F32Add(qx, F32Mul(cos(direction_rad), length)))
        end_y == quantize(F32Add(qy, F32Mul(sin(direction_rad), length)))
    IN  <<end_x, end_y>>
    : direction_rad \in {to_radians(F32Add(F32(direction), FNeg(F32(90))))} })

(***************************************************************************)
(* The palette and its symbolic index                                      *)
(***************************************************************************)
None == [none |-> TRUE]
Ok(v) == [ok |-> TRUE, val |-> v]
Err(msg) == [ok |-> FALSE, val |-> msg]

Color(r, g, b) == [red |-> r, green |-> g, blue |-> b]

\* COLORS[0] .. COLORS[15]
COLORS ==
    LET table == <<
       Color(0, 0, 0),
       Color(0, 0, 255),
       Color(0, 255, 255),
       Color(0, 255, 0),
       Color(255, 0, 0),
       Color(255, 0, 255),
       Color(255, 255, 0),
       Color(255, 255, 255),
       Color(165, 42, 42),
       Color(210, 180, 140),
       Color(34, 139, 34),
       Color(127, 255, 212),
       Color(250, 128, 114),
       Color(128, 0, 128),
       Color(255, 165, 0),
       Color(128, 128, 128) >>
    IN  [i \in 0..(Len(table) - 1) |-> table[i + 1]]

ColorIndex ==
    {"Black", "Blue", "Cyan", "Green", "Red", "Magenta", "Yellow", "White",
     "Brown", "Tan", "Forest", "Aqua", "Salmon", "Purple", "Orange", "Grey"}


\* Two arms of the match exchanged.
usize_from_swapped(index) ==
    CASE index = "Black" -> 0
      [] index = "Blue" -> 1
      [] index = "Cyan" -> 2
      [] index = "Green" -> 3
      [] index = "Red" -> 4
      [] index = "Magenta" -> 5
      [] index = "Yellow" -> 6
      [] index = "White" -> 7
      [] index = "Brown" -> 9
      [] index = "Tan" -> 8
      [] index = "Forest" -> 10
      [] index = "Aqua" -> 11
      [] index = "Salmon" -> 12
      [] index = "Purple" -> 13
      [] index = "Orange" -> 14
      [] index = "Grey" -> 15

\* impl From<ColorIndex> for usize
usize_from(index) ==
    CASE index = "Black" -> 0
      [] index = "Blue" -> 1
      [] index = "Cyan" -> 2
      [] index = "Green" -> 3
      [] index = "Red" -> 4
      [] index = "Magenta" -> 5
      [] index = "Yellow" -> 6
      [] index = "White" -> 7
      [] index = "Brown" -> 8
      [] index = "Tan" -> 9
      [] index = "Forest" -> 10
      [] index = "Aqua" -> 11
      [] index = "Salmon" -> 12
      [] index = "Purple" -> 13
      [] index = "Orange" -> 14
      [] index = "Grey" -> 15

\* impl From<ColorIndex> for Color
Color_from(index) == COLORS[usize_from(index)]

\* impl TryFrom<usize> for ColorIndex
try_from_usize(index) ==
    CASE index = 0 -> Ok("Black")
      [] index = 1 -> Ok("Blue")
      [] index = 2 -> Ok("Cyan")
      [] index = 3 -> Ok("Green")
      [] index = 4 -> Ok("Red")
      [] index = 5 -> Ok("Magenta")
      [] index = 6 -> Ok("Yellow")
      [] index = 7 -> Ok("White")
      [] index = 8 -> Ok("Brown")
      [] index = 9 -> Ok("Tan")
      [] index = 10 -> Ok("Forest")
      [] index = 11 -> Ok("Aqua")
      [] index = 12 -> Ok("Salmon")
      [] index = 13 -> Ok("Purple")
      [] index = 14 -> Ok("Orange")
      [] index = 15 -> Ok("Grey")
      [] OTHER -> Err("Invalid color index")

\* impl TryFrom<u64> for ColorIndex
try_from_u64(index) ==
    CASE index = 0 -> Ok("Black")
      [] index = 1 -> Ok("Blue")
      [] index = 2 -> Ok("Cyan")
      [] index = 3 -> Ok("Green")
      [] index = 4 -> Ok("Red")
      [] index = 5 -> Ok("Magenta")
      [] index = 6 -> Ok("Yellow")
      [] index = 7 -> Ok("White")
      [] index = 8 -> Ok("Brown")
      [] index = 9 -> Ok("Tan")
      [] index = 10 -> Ok("Forest")
      [] index = 11 -> Ok("Aqua")
      [] index = 12 -> Ok("Salmon")
      [] index = 13 -> Ok("Purple")
      [] index = 14 -> Ok("Orange")
      [] index = 15 -> Ok("Grey")
      [] OTHER -> Err("Invalid color index")

\* COLORS.iter().position(|&c| c == color)
position(color) ==
    LET hits == {i \in DOMAIN COLORS : COLORS[i] = color}
    IN  IF hits = {} THEN None
        ELSE Ok(CHOOSE i \in hits : \A j \in hits : i <= j)

\* impl TryFrom<Color> for ColorIndex
try_from_Color(color) ==
    LET found == position(color)
    IN  IF found = None THEN Err("Color not in COLORS array")
        ELSE try_from_usize(found.val)

(***************************************************************************)
(* The Image                                                               *)
(***************************************************************************)
VARIABLES
    width, height,   \* Image.width, Image.height
    tree,            \* Image.tree: its size and the children of its root
    calls,           \* history: every draw_simple_line call and its Result
    ret,             \* the operation that ran last, its Result, its output
    svg,             \* the document save_svg serialized last
    args, probe,     \* get_end_coordinates / quantize: inputs and outputs
    pal, converted   \* palette conversions: inputs and outputs

imageVars == <<width, height, tree, calls, ret, svg>>
fnVars == <<args, probe>>
palVars == <<pal, converted>>
vars == <<width, height, tree, calls, ret, svg, args, probe, pal, converted>>

Some(v) == [some |-> v]
Unit == <<>>

\* usvg::Path with the fields the crate sets.
Path(points, fill, stroke) == [points |-> points, fill |-> fill, stroke |-> stroke]

\* tiny_skia::PathBuilder::from_rect(size.to_non_zero_rect(0.0, 0.0).to_rect())
from_rect(w, h) ==
    << <<F32(0), F32(0)>>, <<w, F32(0)>>, <<w, h>>, <<F32(0), h>> >>


\* The node put first instead of last.
append_kind_front(t, path) == [t EXCEPT !.root = <<path>> \o @]

\* tree.root.append_kind(usvg::NodeKind::Path(path))
append_kind(t, path) == [t EXCEPT !.root = Append(@, path)]

\* The background path of Image::new: a black fill over the whole canvas.
background(w, h) == Path(from_rect(F32(w), F32(h)), Some(Color(0, 0, 0)), None)


\* Image::new without its background.
Image_new_bare(w, h) ==
    [width |-> w, height |-> h,
     tree |-> [size |-> <<F32(w), F32(h)>>, root |-> <<>>]]

Image_new(w, h) ==
    LET size == <<F32(w), F32(h)>>
        empty == [size |-> size, root |-> <<>>]
        path == Path(from_rect(size[1], size[2]), Some(Color(0, 0, 0)), None)
    IN  [width |-> w, height |-> h, tree |-> append_kind(empty, path)]

get_dimensions == <<width, height>>

\* tiny_skia::PathBuilder::finish after move_to and line_to: the path, unless
\* its bounds are not a Rect (a coordinate or an extent that is not finite).
finish(points) == Only({
    IF /\ \A i \in 1..2 : IsFinite(p[i]) /\ IsFinite(q[i])
       /\ \A i \in 1..2 : IsFinite(F32Add(q[i], FNeg(p[i])))
    THEN Some(<<p, q>>)
    ELSE None
    : p \in {points[1]}, q \in {points[2]} })


\* The start used as given.
line_start_raw(x, y) == <<x, y>>

\* let x = quantize(x); let y = quantize(y);
line_start(x, y) == <<quantize(x), quantize(y)>>

\* usvg::Path::new(..) with stroke.paint = Paint::Color(color)
stroked(points, color) == Path(points, None, Some(color))


\* The node appended before the path is known to exist.
tree_after_draw_eager(t, path, color) ==
    append_kind(t, stroked(IF path = None THEN <<>> ELSE path.some, color))

\* The tree draw_simple_line leaves: `?` returns before append_kind.
tree_after_draw(t, path, color) ==
    IF path = None THEN t ELSE append_kind(t, stroked(path.some, color))

draw_simple_line(x, y, direction, length, color) ==
    \E start \in {line_start(x, y)} :
    \E end \in {get_end_coordinates(start[1], start[2], direction, length)} :
    \E path \in {finish(<<start, end>>)} :
    \E result \in {IF path = None THEN Err("Could not draw line") ELSE Ok(end)} :
        /\ tree' = tree_after_draw(tree, path, color)
        /\ calls' = Append(calls, [x |-> x, y |-> y, direction |-> direction,
                                   length |-> length, color |-> color,
                                   result |-> result])
        /\ ret' = [op |-> "draw_simple_line", result |-> result, out |-> None]
        /\ UNCHANGED <<width, height, svg, args, probe, pal, converted>>

\* usvg's serialization: the root sized width x height, then one path per
\* node in order, each with its fill and stroke paint.
paint(p) ==
    IF p = None THEN "none"
    ELSE <<"rgb", p.some.red, p.some.green, p.some.blue>>

to_string(t) ==
    <<[tag |-> "svg", width |-> t.size[1], height |-> t.size[2]]>>
    \o [i \in 1..Len(t.root) |->
           [tag |-> "path", d |-> t.root[i].points,
            fill |-> paint(t.root[i].fill), stroke |-> paint(t.root[i].stroke)]]


\* A save_svg that takes the nodes out of the tree it serializes.
save_svg_taking ==
    \E written \in BOOLEAN :
        /\ svg' = [content |-> to_string(tree), at |-> Len(calls),
                   again |-> svg # None /\ svg.at = Len(calls)]
        /\ tree' = [tree EXCEPT !.root = <<>>]
        /\ ret' = [op |-> "save_svg",
                   result |-> IF written THEN Ok(Unit) ELSE Err("io"),
                   out |-> None]
        /\ UNCHANGED <<width, height, calls, args, probe, pal, converted>>

\* std::fs::write succeeds or fails; &self is only read.
save_svg ==
    \E written \in BOOLEAN :
        /\ svg' = [content |-> to_string(tree), at |-> Len(calls),
                   again |-> svg # None /\ svg.at = Len(calls)]
        /\ ret' = [op |-> "save_svg",
                   result |-> IF written THEN Ok(Unit) ELSE Err("io"),
                   out |-> None]
        /\ UNCHANGED <<width, height, tree, calls, args, probe, pal, converted>>

\* The pixmap has the tree's size; pixmap.save_png succeeds or fails.
save_png ==
    \E written \in BOOLEAN :
        /\ ret' = [op |-> "save_png",
                   result |-> IF written THEN Ok(Unit) ELSE Err("io"),
                   out |-> Some(tree.size)]
        /\ UNCHANGED <<width, height, tree, calls, svg, args, probe, pal, converted>>

(***************************************************************************)
(* Inputs and bounds                                                       *)
(***************************************************************************)
MaxDraws == 3     \* draw_simple_line calls per Image
MaxTurns == 1     \* whole turns added to a direction
MaxIndex == 20    \* largest palette index tried

\* f32 inputs that are not integers
F10_3 == Fin(0, 10800333, -20)          \* 10.3
FHalfStep == Fin(0, 8388608, -32)       \* 1/512, half a grid step
FStep == Fin(0, 8388608, -31)           \* 1/256, one grid step
F70000_3 == Fin(0, 8960038, -7)         \* 70000.3
F3e38 == Fin(0, 14791142, 104)          \* 3e38

\* Image::new(width, height)
Dimensions == {<<200, 200>>, <<100, 50>>}

\* Where a first line starts: off the grid, so that quantization shows.
StartPoints == {<<F10_3, F32(10)>>}

\* The first two calls of the crate's example, and one of infinite length.
DrawCalls ==
    { [direction |-> 120, length |-> F32(100), color |-> COLORS[1]],
      [direction |-> 240, length |-> F32(100), color |-> COLORS[2]],
      [direction |-> 0, length |-> Inf(0), color |-> COLORS[3]] }

\* Inputs of get_end_coordinates.
Points ==
    { <<F32(0), F32(0)>>, <<F32(10), F32(10)>>, <<F10_3, FHalfStep>>,
      <<FNeg(FHalfStep), F70000_3>>, <<F3e38, Inf(1)>>, <<NaN, F32(0)>> }
Directions == {-90, 0, 60, 90, 180, 240, 270}
Lengths ==
    { F32(0), FStep, F32(200), FNeg(F32(200)), F32(22341), F32(22342),
      F32(50000), Inf(0) }
Turns == {k \in (0 - MaxTurns)..MaxTurns : k # 0}

\* Inputs of the palette conversions.
ColorSamples ==
    {COLORS[i] : i \in DOMAIN COLORS}
    \cup {Color(1, 2, 3), Color(0, 0, 254), Color(255, 255, 254), Color(128, 128, 129)}

(***************************************************************************)
(* The Image: construction, then draws and exports in any order            *)
(***************************************************************************)
IdleImage ==
    LET img == Image_new(200, 200)
    IN  /\ width = img.width
        /\ height = img.height
        /\ tree = img.tree
        /\ calls = <<>>
        /\ ret = [op |-> "new", result |-> Ok(Unit), out |-> None]
        /\ svg = None
IdleFn == args = None /\ probe = None
IdlePalette == pal = None /\ converted = None

Init ==
    /\ \E d \in Dimensions :
          LET img == Image_new(d[1], d[2])
          IN  /\ width = img.width
              /\ height = img.height
              /\ tree = img.tree
    /\ calls = <<>>
    /\ ret = [op |-> "new", result |-> Ok(Unit), out |-> None]
    /\ svg = None
    /\ IdleFn
    /\ IdlePalette

\* The end point the last call returned, for a caller that chains lines.
ChainPoints ==
    IF calls # <<>> /\ calls[Len(calls)].result.ok
    THEN {calls[Len(calls)].result.val}
    ELSE {}

Draw ==
    /\ Len(calls) < MaxDraws
    /\ \E start \in StartPoints \cup ChainPoints, c \in DrawCalls :
          draw_simple_line(start[1], start[2], c.direction, c.length, c.color)

Next == Draw \/ save_svg \/ save_png

Spec == Init /\ [][Next]_vars

(***************************************************************************)
(* get_end_coordinates and quantize on their own                           *)
(***************************************************************************)
InitFn ==
    /\ args \in [x : {p[1] : p \in Points}, y : {p[2] : p \in Points},
                 direction : Directions, length : Lengths]
    /\ <<args.x, args.y>> \in Points
    /\ probe = None
    /\ IdleImage
    /\ IdlePalette

Probe(op, k, a, b) ==
    /\ probe = None
    /\ probe' = [op |-> op, k |-> k, a |-> a, b |-> b]
    /\ UNCHANGED <<width, height, tree, calls, ret, svg, args, pal, converted>>

\* One call.
CallEnd ==
    Probe("end", 0,
          get_end_coordinates(args.x, args.y, args.direction, args.length),
          None)

\* The same call with the direction k whole turns further.
CallTurned ==
    \E k \in Turns :
        Probe("turn", k,
              get_end_coordinates(args.x, args.y, args.direction, args.length),
              get_end_coordinates(args.x, args.y, args.direction + 360 * k,
                                  args.length))

\* The negated length against the direction half a turn further.
CallNegated ==
    Probe("negate", 0,
          get_end_coordinates(args.x, args.y, args.direction, FNeg(args.length)),
          get_end_coordinates(args.x, args.y, args.direction + 180, args.length))

\* The start quantized by the caller first, as draw_simple_line does.
CallRequantized ==
    Probe("requantize", 0,
          get_end_coordinates(quantize(args.x), quantize(args.y),
                              args.direction, args.length),
          get_end_coordinates(args.x, args.y, args.direction, args.length))

\* quantize once and twice.
CallQuantize ==
    Probe("quantize", 0, quantize(args.x), quantize(quantize(args.x)))

NextFn == CallEnd \/ CallTurned \/ CallNegated \/ CallRequantized \/ CallQuantize

SpecFn == InitFn /\ [][NextFn]_vars

(***************************************************************************)
(* The palette conversions on their own                                    *)
(***************************************************************************)
InitPalette ==
    /\ pal \in [index : 0..MaxIndex, color : ColorSamples]
    /\ converted = None
    /\ IdleImage
    /\ IdleFn

\* ColorIndex::try_from(index), then back to usize and on to Color, and
\* ColorIndex::try_from(COLORS[index]) where that exists.
ConvertIndex ==
    LET r == try_from_usize(pal.index)
    IN  /\ converted = None
        /\ converted' =
              [op |-> "index",
               usize |-> r,
               u64 |-> try_from_u64(pal.index),
               back |-> IF r.ok THEN Some(usize_from(r.val)) ELSE None,
               color |-> IF r.ok THEN Some(Color_from(r.val)) ELSE None,
               viaColor |-> IF pal.index \in DOMAIN COLORS
                            THEN Some(try_from_Color(COLORS[pal.index]))
                            ELSE None]
        /\ UNCHANGED <<width, height, tree, calls, ret, svg, args, probe, pal>>

\* ColorIndex::try_from(color)
ConvertColor ==
    /\ converted = None
    /\ converted' = [op |-> "color", index |-> try_from_Color(pal.color)]
    /\ UNCHANGED <<width, height, tree, calls, ret, svg, args, probe, pal>>

NextPalette == ConvertIndex \/ ConvertColor

SpecPalette == InitPalette /\ [][NextPalette]_vars

(***************************************************************************)
(* Claims about the Image (Spec)                                           *)
(***************************************************************************)
OkCalls == {i \in 1..Len(calls) : calls[i].result.ok}

\* The scene position (1-based, after the background) of successful call i.
Rank(i) == Cardinality({j \in OkCalls : j <= i})

\* The segment a successful call c must have stored.
SegmentOf(c) ==
    stroked(<<<<quantize(c.x), quantize(c.y)>>, c.result.val>>, c.color)

\* C1: the first primitive of the scene is always the black background fill
\* of Image::new, and the scene holds exactly 1 + (number of draw_simple_line
\* calls that returned Ok) primitives, whatever draws and exports have run.
C1_SceneGrowth ==
    /\ Len(tree.root) = 1 + Cardinality(OkCalls)
    /\ tree.root[1] = background(width, height)

\* A successful and a failed draw have run, and then an export.
C1_Witness ==
    /\ OkCalls # {}
    /\ \E i \in 1..Len(calls) : ~calls[i].result.ok
    /\ ret.op = "save_svg"

\* C2: a draw_simple_line that returns Err leaves width, height and the
\* whole tree as they were.
C2_ErrLeavesImage ==
    [][ (Len(calls') = Len(calls) + 1 /\ ~calls'[Len(calls')].result.ok)
        => (width' = width /\ height' = height /\ tree' = tree) ]_vars

\* A failed draw, then the retry from the same start succeeded.
C2_Witness ==
    \E i \in 1..(Len(calls) - 1) :
        /\ ~calls[i].result.ok
        /\ calls[i + 1].result.ok
        /\ <<calls[i + 1].x, calls[i + 1].y>> = <<calls[i].x, calls[i].y>>
        /\ Len(tree.root) = 2

\* C3: save_svg and save_png, returning Ok or Err, change neither width nor
\* height nor the tree, and a save_svg with no draw_simple_line since the
\* save_svg before it serializes the same document.
C3_ExportsReadOnly ==
    [][ ret'.op \in {"save_svg", "save_png"}
        => /\ width' = width /\ height' = height /\ tree' = tree
           /\ (ret'.op = "save_svg" /\ svg # None /\ svg.at = Len(calls))
              => svg'.content = svg.content ]_vars

\* A second save_svg in a row after a draw, this one failing to write.
C3_Witness ==
    /\ svg # None
    /\ svg.again
    /\ ret.op = "save_svg"
    /\ ~ret.result.ok
    /\ OkCalls # {}

\* C4: the k-th successful draw is the primitive at scene position k: a line
\* from (quantize(x), quantize(y)) to the returned end point, stroked with
\* color; each successful draw appends exactly that one primitive after all
\* the others and leaves them and get_dimensions() as they were.
C4_Stored ==
    /\ Len(tree.root) = 1 + Cardinality(OkCalls)
    /\ \A i \in OkCalls : tree.root[1 + Rank(i)] = SegmentOf(calls[i])

C4_DrawAppends ==
    /\ []C4_Stored
    /\ [][ (Len(calls') = Len(calls) + 1 /\ calls'[Len(calls')].result.ok)
           => /\ tree'.root = Append(tree.root, SegmentOf(calls'[Len(calls')]))
              /\ tree'.size = tree.size
              /\ get_dimensions' = get_dimensions ]_vars

\* Two successful draws of different colours.
C4_Witness ==
    /\ Cardinality(OkCalls) = 2
    /\ \E i, j \in OkCalls : calls[i].color # calls[j].color
    /\ Len(tree.root) = 3

\* v is a multiple of 1/256: v * 256 is an integer.
IsInteger(a) ==
    /\ IsFinite(a)
    /\ \/ a.m = 0
       \/ a.e >= 0
       \/ a.e > 0 - 31 /\ a.m % 2^(0 - a.e) = 0
OnGrid(v) == IsInteger(F32Mul(v, F32(256)))

\* Call i + 1 starts where call i said it ended.
Chained(i) == <<calls[i + 1].x, calls[i + 1].y>> = calls[i].result.val

\* C7: every start and end stored in the scene and every returned end point
\* is a multiple of 1/256, and in a chain of calls (each starting at the end
\* point the call before returned) each stored start equals (==) the end
\* stored for the segment before.
C7_ChainOnGrid ==
    /\ Len(tree.root) = 1 + Cardinality(OkCalls)
    /\ \A n \in 2..Len(tree.root) : \A p, c \in 1..2 :
          OnGrid(tree.root[n].points[p][c])
    /\ \A i \in OkCalls : \A c \in 1..2 : OnGrid(calls[i].result.val[c])
    /\ \A i \in OkCalls :
          (i + 1 \in OkCalls /\ Chained(i))
          => \A c \in 1..2 :
                FEq(tree.root[2 + Rank(i)].points[1][c],
                    tree.root[1 + Rank(i)].points[2][c])

\* A chain of MaxDraws lines from a start off the grid.
C7_Witness ==
    /\ Cardinality(OkCalls) = MaxDraws
    /\ \A i \in 1..(MaxDraws - 1) : Chained(i)
    /\ ~OnGrid(calls[1].x)

(***************************************************************************)
(* Claims about get_end_coordinates and quantize (SpecFn)                  *)
(***************************************************************************)
Probed(op) == probe # None /\ probe.op = op

FEqPair(p, q) == FEq(p[1], q[1]) /\ FEq(p[2], q[2])

FiniteArgs == IsFinite(args.x) /\ IsFinite(args.y) /\ IsFinite(args.length)

\* |a| <= |b| for finite a and b.
AbsLe(a, b) ==
    /\ IsFinite(a)
    /\ \/ a.m = 0
       \/ a.e < b.e
       \/ a.e = b.e /\ a.m <= b.m

\* C5: get_end_coordinates gives the same end point for direction d and for
\* d + 360 * k, whatever the (finite) start and length.
C5_WholeTurnsAgree ==
    (Probed("turn") /\ FiniteArgs) => FEqPair(probe.a, probe.b)

\* The end point the compass convention gives from (0, 0): 0 is up, 90 is
\* right, 180 is down, 270 is left.
CompassEnd(direction, length) ==
    CASE direction = 0 -> <<F32(0), quantize(FNeg(length))>>
      [] direction = 90 -> <<quantize(length), F32(0)>>
      [] direction = 180 -> <<F32(0), quantize(length)>>
      [] direction = 270 -> <<quantize(FNeg(length)), F32(0)>>

AtCompassPoint ==
    /\ Probed("end")
    /\ args.x = F32(0)
    /\ args.y = F32(0)
    /\ args.direction \in {0, 90, 180, 270}

\* C6 as stated: from (0, 0), directions 0, 90, 180 and 270 give (0, -L),
\* (L, 0), (0, L) and (-L, 0) for every finite length L.
C6_CompassAnyLength ==
    (AtCompassPoint /\ IsFinite(args.length))
    => FEqPair(probe.a, CompassEnd(args.direction, args.length))

\* C6 as amended: the same for every length with |L| <= 22341.
C6_Compass ==
    (AtCompassPoint /\ AbsLe(args.length, F32(22341)))
    => FEqPair(probe.a, CompassEnd(args.direction, args.length))

\* Direction 270 with the longest length the amended claim covers.
C6_Witness ==
    /\ AtCompassPoint
    /\ args.direction = 270
    /\ args.length = F32(22341)
    /\ probe.a = <<FNeg(F32(22341)), Zero(1)>>

\* a and b are the same f32: equal under ==, or both NaN.
SameF32(a, b) == FEq(a, b) \/ (IsNaN(a) /\ IsNaN(b))

\* C8 as stated: quantize(quantize(v)) == quantize(v) for every v, and
\* get_end_coordinates(quantize(x), quantize(y), d, len) ==
\* get_end_coordinates(x, y, d, len).
C8_IdempotentForAll ==
    /\ Probed("quantize") => FEq(probe.b, probe.a)
    /\ Probed("requantize") => FEqPair(probe.a, probe.b)

\* C8 as amended: quantize(quantize(v)) == quantize(v) for every v that is
\* not NaN, and for NaN both are NaN; the two get_end_coordinates calls
\* return equal (==) coordinates wherever the coordinate is not NaN, and NaN
\* in both wherever it is.
C8_Idempotent ==
    /\ Probed("quantize")
       => /\ SameF32(probe.b, probe.a)
          /\ ~IsNaN(args.x) => FEq(probe.b, probe.a)
    /\ Probed("requantize")
       => \A c \in 1..2 : SameF32(probe.a[c], probe.b[c])

\* quantize moved 10.3 onto the grid, and a second quantize left it there.
C8_Witness ==
    /\ Probed("quantize")
    /\ args.x = F10_3
    /\ ~FEq(probe.a, args.x)
    /\ OnGrid(probe.a)
    /\ FEq(probe.b, probe.a)

\* C10 as stated: get_end_coordinates(x, y, d, -L) equals
\* get_end_coordinates(x, y, d + 180, L) for every finite start and length.
C10_NegatedExactly ==
    (Probed("negate") /\ FiniteArgs) => FEqPair(probe.a, probe.b)

\* The integer n of a grid value n / 256.
GridIndex(v) ==
    LET w == F32Mul(v, F32(256))
        mag == IF w.m = 0 THEN 0
               ELSE IF w.e >= 0 THEN w.m * 2^w.e
               ELSE w.m \div 2^(0 - w.e)
    IN  IF w.s = 1 THEN 0 - mag ELSE mag

WithinOneStep(a, b) ==
    /\ OnGrid(a)
    /\ OnGrid(b)
    /\ GridIndex(a) - GridIndex(b) \in {-1, 0, 1}

SmallArgs ==
    /\ AbsLe(args.x, F32(1024))
    /\ AbsLe(args.y, F32(1024))
    /\ AbsLe(args.length, F32(1024))
    /\ args.direction \in (0 - 720)..720

\* C10 as amended: for |x|, |y|, |L| <= 1024 and |d| <= 720 each coordinate
\* of get_end_coordinates(x, y, d, -L) is within one grid step (1/256) of
\* that of get_end_coordinates(x, y, d + 180, L).
C10_NegatedWithinStep ==
    (Probed("negate") /\ SmallArgs)
    => \A c \in 1..2 : WithinOneStep(probe.a[c], probe.b[c])

\* From (0, 0), direction 240 and length 200: the two end points are one
\* grid step apart in x.
C10_Witness ==
    /\ Probed("negate")
    /\ args = [x |-> F32(0), y |-> F32(0), direction |-> 240, length |-> F32(200)]
    /\ GridIndex(probe.a[1]) - GridIndex(probe.b[1]) = 1
    /\ FEq(probe.a[2], probe.b[2])

(***************************************************************************)
(* Claims about the palette (SpecPalette)                                  *)
(***************************************************************************)
Converted(op) == converted # None /\ converted.op = op

\* C9: for i < 16, ColorIndex::try_from(i) succeeds, goes back to usize as i
\* and to Color as COLORS[i], and is what ColorIndex::try_from(COLORS[i])
\* gives; for i >= 16 (usize or u64) and for a Color that is not in COLORS,
\* try_from returns Err.
C9_PaletteRoundTrip ==
    /\ Converted("index")
       => IF pal.index < 16
          THEN /\ converted.usize.ok
               /\ converted.usize.val \in ColorIndex
               /\ converted.back = Some(pal.index)
               /\ converted.color = Some(COLORS[pal.index])
               /\ converted.viaColor = Some(converted.usize)
          ELSE /\ ~converted.usize.ok
               /\ ~converted.u64.ok
    /\ Converted("color")
       => ((\A i \in DOMAIN COLORS : COLORS[i] # pal.color)
           => ~converted.index.ok)

\* Index 15 became Grey and came back as 15.
C9_Witness ==
    /\ Converted("index")
    /\ pal.index = 15
    /\ converted.usize = Ok("Grey")
    /\ converted.back = Some(15)

=============================================================================
